---- MODULE Spec2Model ----
(***************************************************************************)
(* Model of goini (src/sections.go): the Section option store, the IniFile *)
(* section registry, the line parser and the serializer.                   *)
(*                                                                         *)
(* A Go string is a sequence of one-character strings, so that Index,      *)
(* Trim, HasPrefix, the line scanner and the regular-expression match are  *)
(* computed on the characters.  A Go map is a function whose DOMAIN is the *)
(* set of keys present.  A *Section is an index into heap.                 *)
(***************************************************************************)
EXTENDS Integers, Sequences, FiniteSets, TLC

VARIABLES
    heap,             \* every Section allocated so far; a *Section is an index
    sections,         \* IniFile.sections: name -> list of *Section
    orderedSections,  \* IniFile.orderedSections
    ret,              \* the last call and what it returned
    panicked,         \* a run-time panic or fatal error ended the program
    input,            \* contents of the file given to Parse
    first,            \* the IniFile returned by the first Parse of a round trip
    pc,               \* position of the round-trip driver
    threads,          \* of every caller thread: its position in a call and its locals
    mutex             \* IniFile.mutex

vars == <<heap, sections, orderedSections, ret, panicked, input, first, pc,
          threads, mutex>>

-----------------------------------------------------------------------------
(* Bounds *)

MaxSections == 4     \* Section instances allocated in one run of Spec
MaxLines    == 3     \* lines of the file given to Parse
MaxHandles  == 2     \* Sections of a run of Spec whose options the caller sets

-----------------------------------------------------------------------------
(* Strings *)

NL == "\n"
global == <<"g", "l", "o", "b", "a", "l">>

\* strings.Index(s, ch): 0-based index of the first ch, -1 when there is none
Index(s, ch) ==
    IF \E i \in 1..Len(s) : s[i] = ch
    THEN (CHOOSE i \in 1..Len(s) : s[i] = ch /\ \A j \in 1..(i-1) : s[j] # ch) - 1
    ELSE -1

RECURSIVE TrimLeft(_, _)
TrimLeft(s, cutset) ==
    IF s # <<>> /\ Head(s) \in cutset THEN TrimLeft(Tail(s), cutset) ELSE s

RECURSIVE TrimRight(_, _)
TrimRight(s, cutset) ==
    IF s # <<>> /\ s[Len(s)] \in cutset
    THEN TrimRight(SubSeq(s, 1, Len(s) - 1), cutset) ELSE s

\* strings.Trim(s, cutset)
Trim(s, cutset) == TrimRight(TrimLeft(s, cutset), cutset)

\* strings.HasPrefix(s, prefix)
HasPrefix(s, prefix) ==
    Len(s) >= Len(prefix) /\ SubSeq(s, 1, Len(prefix)) = prefix

\* strings.Join(parts, "")
RECURSIVE Join(_)
Join(parts) == IF parts = <<>> THEN <<>> ELSE Head(parts) \o Join(Tail(parts))

\* bufio.Scanner with the default ScanLines split: the text up to each
\* newline, and a final unterminated line when it is not empty
RECURSIVE ScanLines(_)
ScanLines(text) ==
    IF text = <<>> THEN <<>>
    ELSE LET i == Index(text, NL) IN
         IF i = -1 THEN <<text>>
         ELSE <<SubSeq(text, 1, i)>> \o ScanLines(SubSeq(text, i + 2, Len(text)))

-----------------------------------------------------------------------------
(* Go maps *)

EmptyMap == [k \in {} |-> <<>>]

\* m[k] of a map[string]string: the zero value "" when k is absent
MapGet(m, k) == IF k \in DOMAIN m THEN m[k] ELSE <<>>

\* m[k] = v
MapPut(m, k, v) == [x \in (DOMAIN m) \cup {k} |-> IF x = k THEN v ELSE m[x]]

\* delete(m, k)
MapDelete(m, k) == [x \in (DOMAIN m) \ {k} |-> m[x]]

-----------------------------------------------------------------------------
(* Section *)

\* &Section{name: name, options: make(map[string]string)}
NewSection(name) == [name |-> name, options |-> EmptyMap, orderedOptions |-> <<>>]

Exists(s, option) == option \in DOMAIN s.options

ValueOf(s, option) == MapGet(s.options, option)

OptionNames(s) == s.orderedOptions

Options(s) == s.options

SetValueForMutOrder(s, option, value) ==
    [s    |-> [s EXCEPT !.options = MapPut(s.options, option, value),
                        !.orderedOptions = Append(s.orderedOptions, option)],
     old  |-> MapGet(s.options, option)]

\* Section.SetValueFor: the new section and the old value
SetValueFor(s, option, value) ==
    [s    |-> [s EXCEPT !.options = MapPut(s.options, option, value)],
     old  |-> MapGet(s.options, option)]

AddMutAlwaysAppend(s, option, value) ==
    [s    |-> [s EXCEPT !.options = MapPut(s.options, option, value),
                        !.orderedOptions = Append(s.orderedOptions, option)],
     old  |-> MapGet(s.options, option)]

\* Section.Add: the new section and the old value
Add(s, option, value) ==
    [s    |-> [s EXCEPT !.options = MapPut(s.options, option, value),
                        !.orderedOptions =
                            IF option \in DOMAIN s.options
                            THEN s.orderedOptions
                            ELSE Append(s.orderedOptions, option)],
     old  |-> MapGet(s.options, option)]

\* The loop of Section.Delete and of IniFile.Delete: range evaluates the
\* slice once (arr, the backing array up to the length at loop entry) while
\* the body re-slices the field (its current length is len) and shifts the
\* backing array in place.  i is the 1-based position of the loop; match is
\* the set of values the body removes.  s[i+1:] panics when i+1 > len(s).
RECURSIVE RangeRemove(_, _, _, _)
RangeRemove(arr, len, i, match) ==
    IF i > Len(arr) THEN [slice |-> SubSeq(arr, 1, len), panic |-> FALSE]
    ELSE IF arr[i] \in match
         THEN IF i > len
              THEN [slice |-> SubSeq(arr, 1, len), panic |-> TRUE]
              ELSE RangeRemove([j \in 1..Len(arr) |->
                                   IF j >= i /\ j < len THEN arr[j + 1] ELSE arr[j]],
                               len - 1, i + 1, match)
         ELSE RangeRemove(arr, len, i + 1, match)

DeleteOptionMutKeepOrder(s, option) ==
    [s     |-> [s EXCEPT !.options = MapDelete(s.options, option)],
     old   |-> MapGet(s.options, option),
     panic |-> FALSE]

\* Section.Delete: the new section, the deleted value, and whether it panics
DeleteOption(s, option) ==
    LET r == RangeRemove(s.orderedOptions, Len(s.orderedOptions), 1, {option}) IN
    [s     |-> [s EXCEPT !.options = MapDelete(s.options, option),
                         !.orderedOptions = r.slice],
     old   |-> MapGet(s.options, option),
     panic |-> r.panic]

SectionStringMutHeader(s) ==
    LET sName == <<"[">> \o s.name \o <<"]", NL>>
        part(opt) == IF MapGet(s.options, opt) # <<>>
                     THEN opt \o <<"=">> \o MapGet(s.options, opt) \o <<NL>>
                     ELSE opt \o <<NL>>
    IN  Join(<<sName>> \o [i \in 1..Len(s.orderedOptions) |-> part(s.orderedOptions[i])])

\* Section.String
SectionString(s) ==
    LET sName == IF s.name = global THEN <<>> ELSE <<"[">> \o s.name \o <<"]", NL>>
        part(opt) == IF MapGet(s.options, opt) # <<>>
                     THEN opt \o <<"=">> \o MapGet(s.options, opt) \o <<NL>>
                     ELSE opt \o <<NL>>
    IN  Join(<<sName>> \o [i \in 1..Len(s.orderedOptions) |-> part(s.orderedOptions[i])])

\* the closure split of parseOption
split(option, i) ==
    [opt   |-> Trim(SubSeq(option, 1, i), {" "}),
     value |-> Trim(SubSeq(option, i + 2, Len(option)), {" "})]

parseOptionMutColonFirst(option) ==
    IF Index(option, ":") # -1 THEN split(option, Index(option, ":"))
    ELSE IF Index(option, "=") # -1 THEN split(option, Index(option, "="))
    ELSE [opt |-> option, value |-> <<>>]

parseOption(option) ==
    IF Index(option, "=") # -1 THEN split(option, Index(option, "="))
    ELSE IF Index(option, ":") # -1 THEN split(option, Index(option, ":"))
    ELSE [opt |-> option, value |-> <<>>]

\* Section.AddOption
AddOption(s, option) ==
    LET p == parseOption(option) IN
    IF p.value # <<>>
    THEN [s EXCEPT !.options = MapPut(s.options, p.opt, p.value)]
    ELSE s

-----------------------------------------------------------------------------
(* Regular expressions.  The patterns used are a literal, optionally       *)
(* anchored with a leading ^, and the pattern "(" which does not compile   *)
(* (missing closing parenthesis).                                          *)

Compiles(regex) == \A i \in 1..Len(regex) : regex[i] # "("

Contains(s, sub) ==
    \E i \in 0..(Len(s) - Len(sub)) : SubSeq(s, i + 1, i + Len(sub)) = sub

\* regexp.MatchString(regex, name): matched and whether err is non-nil
MatchString(regex, name) ==
    IF ~Compiles(regex) THEN [matched |-> FALSE, err |-> TRUE]
    ELSE IF HasPrefix(regex, <<"^">>)
         THEN [matched |-> HasPrefix(name, Tail(regex)), err |-> FALSE]
         ELSE [matched |-> Contains(name, regex), err |-> FALSE]

-----------------------------------------------------------------------------
(* IniFile.  A value c is the record of the fields sections and            *)
(* orderedSections together with the heap of the Sections allocated.       *)

NewIniFile == [sections |-> EmptyMap, orderedSections |-> <<>>, heap |-> <<>>]

AddSectionMutPushFront(c, name) ==
    LET id == Len(c.heap) + 1 IN
    [c |-> [heap |-> Append(c.heap, NewSection(name)),
            sections |->
                IF name \in DOMAIN c.sections
                THEN [c.sections EXCEPT ![name] = <<id>> \o @]
                ELSE MapPut(c.sections, name, <<id>>),
            orderedSections |->
                IF name \in DOMAIN c.sections
                THEN c.orderedSections
                ELSE Append(c.orderedSections, name)],
     section |-> id]

\* IniFile.AddSection: the new IniFile and the *Section returned
AddSection(c, name) ==
    LET id == Len(c.heap) + 1 IN
    [c |-> [heap |-> Append(c.heap, NewSection(name)),
            sections |->
                IF name \in DOMAIN c.sections
                THEN [c.sections EXCEPT ![name] = Append(@, id)]
                ELSE MapPut(c.sections, name, <<id>>),
            orderedSections |->
                IF name \in DOMAIN c.sections
                THEN c.orderedSections
                ELSE Append(c.orderedSections, name)],
     section |-> id]

SectionMutLast(c, name) ==
    IF name \in DOMAIN c.sections /\ c.sections[name] # <<>>
    THEN [section |-> c.sections[name][Len(c.sections[name])], err |-> FALSE]
    ELSE [section |-> 0, err |-> TRUE]

\* IniFile.Section: the first *Section under name (0 is nil), and err
Section(c, name) ==
    IF name \in DOMAIN c.sections /\ c.sections[name] # <<>>
    THEN [section |-> Head(c.sections[name]), err |-> FALSE]
    ELSE [section |-> 0, err |-> TRUE]

\* the "get all sections" loop of IniFile.Sections
RECURSIVE AllSections(_, _)
AllSections(c, names) ==
    IF names = <<>> THEN <<>>
    ELSE (IF Head(names) \in DOMAIN c.sections
          THEN c.sections[Head(names)] ELSE <<>>)
         \o AllSections(c, Tail(names))

\* IniFile.Sections
Sections(c, name) ==
    IF name = <<>>
    THEN [sections |-> AllSections(c, c.orderedSections), err |-> FALSE]
    ELSE IF name \in DOMAIN c.sections
         THEN [sections |-> c.sections[name], err |-> FALSE]
         ELSE [sections |-> <<>>, err |-> TRUE]

\* IniFile.StringValue
StringValue(c, section, option) ==
    IF Section(c, section).err
    THEN [value |-> <<>>, err |-> TRUE]
    ELSE [value |-> ValueOf(c.heap[Section(c, section).section], option),
          err |-> FALSE]

\* The orders in which a range over a Go map may visit the keys
KeyOrders(m) ==
    {o \in [1..Cardinality(DOMAIN m) -> DOMAIN m] :
        \A i, j \in 1..Cardinality(DOMAIN m) : i # j => o[i] # o[j]}

\* IniFile.Find, its range over the map visiting the keys in the order keys
RECURSIVE Find(_, _, _)
Find(c, regex, keys) ==
    IF keys = <<>> THEN [sections |-> <<>>, err |-> FALSE]
    ELSE IF MatchString(regex, Head(keys)).matched
         THEN LET rest == Find(c, regex, Tail(keys)) IN
              IF rest.err THEN rest
              ELSE [sections |-> c.sections[Head(keys)] \o rest.sections,
                    err |-> FALSE]
         ELSE IF MatchString(regex, Head(keys)).err
              THEN [sections |-> <<>>, err |-> TRUE]
              ELSE Find(c, regex, Tail(keys))

\* the names regex matches
Matching(regex, names) == {n \in names : MatchString(regex, n).matched}

\* IniFile.Delete after its call of Find returned f: the new IniFile, the
\* sections and err returned, and whether the call panics (slice bounds out
\* of range)
DeleteFound(c, regex, f) ==
    LET deleted == {c.heap[f.sections[i]].name : i \in 1..Len(f.sections)}
        map     == [n \in (DOMAIN c.sections) \ deleted |-> c.sections[n]]
        names   == {c.orderedSections[i] : i \in 1..Len(c.orderedSections)}
        r       == RangeRemove(c.orderedSections, Len(c.orderedSections), 1,
                               Matching(regex, names))
    IN  IF f.err
        THEN [c |-> c, sections |-> <<>>, err |-> TRUE, panic |-> FALSE]
        ELSE IF c.orderedSections # <<>>
                /\ MatchString(regex, c.orderedSections[1]).err
             THEN [c |-> [c EXCEPT !.sections = map],
                   sections |-> <<>>, err |-> TRUE, panic |-> FALSE]
             ELSE [c |-> [c EXCEPT !.sections = map, !.orderedSections = r.slice],
                   sections |-> IF r.panic THEN <<>> ELSE f.sections,
                   err |-> FALSE, panic |-> r.panic]

\* IniFile.Delete with no other thread between its Find and its own body
Delete(c, regex, keys) == DeleteFound(c, regex, Find(c, regex, keys))

\* IniFile.String
RECURSIVE StringParts(_, _)
StringParts(c, names) ==
    IF names = <<>> THEN <<>>
    ELSE LET secs == Sections(c, Head(names)).sections IN
         Join([i \in 1..Len(secs) |-> SectionString(c.heap[secs[i]])])
         \o StringParts(c, Tail(names))

String(c) == StringParts(c, c.orderedSections)

isSection(section) == HasPrefix(section, <<"[">>)

\* the scanner loop of Parse; active is the *Section activeSection
RECURSIVE ParseLines(_, _, _)
ParseLines(c, active, lines) ==
    IF lines = <<>> THEN c
    ELSE LET line == Head(lines) IN
         IF ~(HasPrefix(line, <<"#">>) \/ HasPrefix(line, <<";">>)) /\ Len(line) > 0
         THEN IF isSection(line)
              THEN LET a == AddSection(c, Trim(line, {" ", "[", "]"})) IN
                   ParseLines(a.c, a.section, Tail(lines))
              ELSE ParseLines([c EXCEPT !.heap[active] = AddOption(@, line)],
                              active, Tail(lines))
         ELSE ParseLines([c EXCEPT !.heap[active] = AddOption(@, line)],
                         active, Tail(lines))

\* Parse, of a file that opens and reads without error
Parse(text) ==
    LET a == AddSection(NewIniFile, global) IN
    ParseLines(a.c, a.section, ScanLines(text))

-----------------------------------------------------------------------------
(* Caller threads and the sync.RWMutex of the IniFile.                     *)

MaxThreads == 2      \* caller threads of the concurrent specifications
MaxShared  == 2      \* Section instances allocated in a concurrent run
Threads == 1..MaxThreads

\* what a call returned: the operation, the *Sections and whether err is non-nil
Result(op, secs, err) == [op |-> op, sections |-> secs, err |-> err]

\* a thread that is in no call; res is what its last call returned, log the
\* sink steps of its last Save, written the text handed to the bufio.Writer
\* and file the text that reached the file
IdleThread(res, log, written, file) ==
    [pc |-> "idle", op |-> "none", name |-> <<>>, id |-> 0, lst |-> "nil",
     ord |-> <<>>, found |-> <<>>, names |-> <<>>,
     log |-> log, written |-> written, file |-> file, res |-> res]

NoThreads == [t \in Threads |-> IdleThread(Result("none", <<>>, FALSE), <<>>, <<>>, <<>>)]

\* the zero RWMutex: w is the thread that holds or has announced the write
\* lock (0 is none), readers the number of read locks held
Unlocked == [w |-> 0, readers |-> 0]

-----------------------------------------------------------------------------
(* Calls.  ret records the last call: its operation, its string arguments  *)
(* (name is the option, section name or pattern), the string returned      *)
(* (old), the *Sections returned and whether err is non-nil.               *)

Ret(op, name, value, old, secs, err) ==
    [op |-> op, name |-> name, value |-> value, old |-> old,
     sections |-> secs, err |-> err]

NoRet == Ret("none", <<>>, <<>>, <<>>, <<>>, FALSE)

\* the IniFile the variables hold
cur == [sections |-> sections, orderedSections |-> orderedSections, heap |-> heap]

\* a run-time panic or fatal error is not recovered: the program ends
Fatal(op, name, value) ==
    /\ panicked' = TRUE
    /\ ret' = Ret(op, name, value, <<>>, <<>>, FALSE)

\* s.Add(option, value) on the Section id
CallAdd(id, option, value) ==
    /\ ~panicked
    /\ heap' = [heap EXCEPT ![id] = Add(@, option, value).s]
    /\ ret' = Ret("Add", option, value, Add(heap[id], option, value).old,
                  <<id>>, FALSE)
    /\ UNCHANGED <<sections, orderedSections, panicked, input, first, pc, threads, mutex>>

\* s.SetValueFor(option, value)
CallSetValueFor(id, option, value) ==
    /\ ~panicked
    /\ heap' = [heap EXCEPT ![id] = SetValueFor(@, option, value).s]
    /\ ret' = Ret("SetValueFor", option, value,
                  SetValueFor(heap[id], option, value).old, <<id>>, FALSE)
    /\ UNCHANGED <<sections, orderedSections, panicked, input, first, pc, threads, mutex>>

\* s.Delete(option)
CallDeleteOption(id, option) ==
    /\ ~panicked
    /\ heap' = [heap EXCEPT ![id] = DeleteOption(@, option).s]
    /\ ret' = Ret("DeleteOption", option, <<>>,
                  IF DeleteOption(heap[id], option).panic THEN <<>>
                  ELSE DeleteOption(heap[id], option).old, <<id>>, FALSE)
    /\ panicked' = DeleteOption(heap[id], option).panic
    /\ UNCHANGED <<sections, orderedSections, input, first, pc, threads, mutex>>

\* s.AddOption(line)
CallAddOption(id, line) ==
    /\ ~panicked
    /\ heap' = [heap EXCEPT ![id] = AddOption(@, line)]
    /\ ret' = Ret("AddOption", line, <<>>, <<>>, <<id>>, FALSE)
    /\ UNCHANGED <<sections, orderedSections, panicked, input, first, pc, threads, mutex>>

(* AddOption takes no lock, so the map write of a concurrent AddOption(line) *)
(* can land inside a call that holds s.mutex.  The write is a data race on   *)
(* the map: either the run time detects it (fatal error: concurrent map     *)
(* writes) or it takes effect at the point where it landed.                 *)

\* s.Add(option, value) with AddOption's write between its lookup and its write
RaceAdd(id, option, value, line) ==
    /\ ~panicked
    /\ \/ /\ Fatal("Add||AddOption", option, value)
          /\ UNCHANGED heap
       \/ /\ heap' = [heap EXCEPT ![id] =
                [Add(@, option, value).s EXCEPT
                   !.options = MapPut(AddOption(heap[id], line).options,
                                      option, value)]]
          /\ ret' = Ret("Add||AddOption", option, value,
                        Add(heap[id], option, value).old, <<id>>, FALSE)
          /\ UNCHANGED panicked
    /\ UNCHANGED <<sections, orderedSections, input, first, pc, threads, mutex>>

\* s.SetValueFor(option, value) with AddOption's write between its read and
\* its write
RaceSetValueFor(id, option, value, line) ==
    /\ ~panicked
    /\ \/ /\ Fatal("SetValueFor||AddOption", option, value)
          /\ UNCHANGED heap
       \/ /\ heap' = [heap EXCEPT ![id] =
                SetValueFor(AddOption(@, line), option, value).s]
          /\ ret' = Ret("SetValueFor||AddOption", option, value,
                        SetValueFor(heap[id], option, value).old, <<id>>, FALSE)
          /\ UNCHANGED panicked
    /\ UNCHANGED <<sections, orderedSections, input, first, pc, threads, mutex>>

\* s.Delete(option) with AddOption's write before (early) or after its
\* delete(s.options, option)
RaceDeleteOption(id, option, line, early) ==
    /\ ~panicked
    /\ \/ /\ Fatal("DeleteOption||AddOption", option, <<>>)
          /\ UNCHANGED heap
       \/ /\ heap' = [heap EXCEPT ![id] =
                IF early THEN DeleteOption(AddOption(@, line), option).s
                ELSE AddOption(DeleteOption(@, option).s, line)]
          /\ ret' = Ret("DeleteOption||AddOption", option, <<>>,
                        IF DeleteOption(heap[id], option).panic THEN <<>>
                        ELSE DeleteOption(heap[id], option).old, <<id>>, FALSE)
          /\ panicked' = DeleteOption(heap[id], option).panic
    /\ UNCHANGED <<sections, orderedSections, input, first, pc, threads, mutex>>

-----------------------------------------------------------------------------
(* SpecSection: every sequence of calls on one Section, from the Section   *)
(* that AddSection returns.                                                *)

X == <<"x">>
OptionKeys == {<<"a">>, <<"b">>}
OptionValues == {<<>>, <<"1">>, <<"2">>}
RawLines ==
    { <<"a", "=", "1">>, <<" ", "a", " ", "=", " ", "2", " ">>,
      <<"b", ":", "2">>, <<"b", ":", "1", "=", "2">>,
      <<"a">>, <<"a", "=">>, <<"#", "c">>, <<>> }

InitSection ==
    /\ \E name \in {global, X} :
          /\ heap = AddSection(NewIniFile, name).c.heap
          /\ sections = AddSection(NewIniFile, name).c.sections
          /\ orderedSections = AddSection(NewIniFile, name).c.orderedSections
    /\ ret = NoRet
    /\ panicked = FALSE
    /\ input = <<>>
    /\ first = NewIniFile
    /\ pc = "section"
    /\ threads = NoThreads
    /\ mutex = Unlocked

NextSection ==
    \/ \E o \in OptionKeys, v \in OptionValues : CallAdd(1, o, v)
    \/ \E o \in OptionKeys, v \in OptionValues : CallSetValueFor(1, o, v)
    \/ \E o \in OptionKeys : CallDeleteOption(1, o)
    \/ \E l \in RawLines : CallAddOption(1, l)
    \/ \E o \in OptionKeys, v \in OptionValues, l \in RawLines : RaceAdd(1, o, v, l)
    \/ \E o \in OptionKeys, v \in OptionValues, l \in RawLines :
          RaceSetValueFor(1, o, v, l)
    \/ \E o \in OptionKeys, l \in RawLines, early \in BOOLEAN :
          RaceDeleteOption(1, o, l, early)

SpecSection == InitSection /\ [][NextSection]_vars

NoDuplicates(seq) == \A i, j \in 1..Len(seq) : i # j => seq[i] # seq[j]

\* C7: in every state reachable by any sequence and interleaving of Add,
\* SetValueFor, Delete and AddOption on one Section, OptionNames() contains
\* no name more than once.
C7_OptionNamesUnique == \A id \in 1..Len(heap) : NoDuplicates(OptionNames(heap[id]))

\* two names are listed, after deletions and re-additions raced by AddOption
C7_Witness ==
    /\ Len(OptionNames(heap[1])) = 2
    /\ ret.op = "DeleteOption||AddOption"
    /\ ret.name \in DOMAIN heap[1].options

\* C6: calling Add(k, v) and then Add(k, w) leaves OptionNames() after the
\* second call equal to OptionNames() after the first, the second call
\* returns v, and ValueOf(k) is then w.
C6_AddTwice ==
    [][(ret.op = "Add" /\ ret'.op = "Add" /\ ret'.name = ret.name)
        => /\ OptionNames(heap'[1]) = OptionNames(heap[1])
           /\ ret'.old = ret.value
           /\ ValueOf(heap'[1], ret'.name) = ret'.value]_vars

\* a second Add of a listed name has returned the non-empty value of the first
C6_Witness ==
    /\ ret.op = "Add"
    /\ ret.old # <<>>
    /\ ret.old # ret.value
    /\ \E i \in 1..Len(OptionNames(heap[1])) : OptionNames(heap[1])[i] = ret.name
    /\ Len(OptionNames(heap[1])) = 2

\* C8: SetValueFor(k, v) where k is absent returns the empty string, makes
\* Exists(k) true and ValueOf(k) = v and leaves OptionNames() unchanged;
\* where k is present it returns the previous value and also leaves
\* OptionNames() unchanged.
C8_SetValueForFrame ==
    [][ret'.op = "SetValueFor"
        => /\ ret'.old = (IF Exists(heap[1], ret'.name)
                          THEN heap[1].options[ret'.name] ELSE <<>>)
           /\ Exists(heap'[1], ret'.name)
           /\ ValueOf(heap'[1], ret'.name) = ret'.value
           /\ OptionNames(heap'[1]) = OptionNames(heap[1])]_vars

\* SetValueFor has stored a value under a name that OptionNames() does not list
C8_Witness ==
    /\ ret.op = "SetValueFor"
    /\ ret.old = <<>>
    /\ ret.value # <<>>
    /\ Exists(heap[1], ret.name)
    /\ \A i \in 1..Len(OptionNames(heap[1])) : OptionNames(heap[1])[i] # ret.name

\* the lines of a rendering, each of them ended by a newline
EndsEachLine(text, lines) ==
    /\ text # <<>> => text[Len(text)] = NL
    /\ \A i \in 1..Len(lines) : \A j \in 1..Len(lines[i]) : lines[i][j] # NL
    /\ Len(text) = Len(Join(lines)) + Len(lines)

\* what Section.String renders of s, with delim between a key and its value
Renders(s, delim) ==
    LET text  == SectionString(s)
        lines == ScanLines(text)
        hdr   == IF s.name = global THEN 0 ELSE 1
    IN  /\ EndsEachLine(text, lines)
        /\ Len(lines) = hdr + Len(OptionNames(s))
        /\ hdr = 1 => lines[1] = <<"[">> \o s.name \o <<"]">>
        /\ \A i \in 1..Len(OptionNames(s)) :
              lines[hdr + i] =
                 IF ValueOf(s, OptionNames(s)[i]) # <<>>
                 THEN OptionNames(s)[i] \o delim \o ValueOf(s, OptionNames(s)[i])
                 ELSE OptionNames(s)[i]

IsTrimOf(t, s) ==
    /\ t # <<>> => (t[1] # " " /\ t[Len(t)] # " ")
    /\ \E i \in 0..Len(s) :
          /\ i + Len(t) <= Len(s)
          /\ SubSeq(s, i + 1, i + Len(t)) = t
          /\ \A j \in 1..Len(s) : (j <= i \/ j > i + Len(t)) => s[j] = " "

\* line splits at position i into the key k and the value v
SplitsAt(line, i, k, v) ==
    /\ IsTrimOf(k, SubSeq(line, 1, i - 1))
    /\ IsTrimOf(v, SubSeq(line, i + 1, Len(line)))

\* the positions of the delimiter AddOption is to split line at: the first =
\* if there is one, otherwise the first :
Delimiter(line) ==
    LET at(ch) == {i \in 1..Len(line) : line[i] = ch /\ \A j \in 1..(i - 1) : line[j] # ch}
    IN  IF at("=") # {} THEN at("=") ELSE at(":")

Count(seq, name) == Cardinality({i \in 1..Len(seq) : seq[i] = name})

\* C17 as stated: after Add(name, value) returns, name occurs exactly once in
\* OptionNames() and ValueOf(name) = value, whatever calls preceded it.
C17_AddAsStated ==
    ret.op = "Add" =>
       /\ Count(OptionNames(heap[1]), ret.name) = 1
       /\ ValueOf(heap[1], ret.name) = ret.value

\* C17 (amended): after Add(name, value) returns, ValueOf(name) = value, and
\* name occurs exactly once in OptionNames() when before the call it was
\* absent from the options or already listed; a name present but unlisted
\* (stored by SetValueFor or AddOption) stays unlisted.
C17_AddListsNewNames ==
    [][ret'.op = "Add"
        => /\ ValueOf(heap'[1], ret'.name) = ret'.value
           /\ Count(OptionNames(heap'[1]), ret'.name) =
                 (IF ~Exists(heap[1], ret'.name)
                     \/ Count(OptionNames(heap[1]), ret'.name) = 1
                  THEN 1 ELSE 0)]_vars

\* Add has returned for a name that SetValueFor or AddOption stored: the name
\* has the new value and is not listed
C17_Witness ==
    /\ ret.op = "Add"
    /\ ret.value # <<>>
    /\ ValueOf(heap[1], ret.name) = ret.value
    /\ Count(OptionNames(heap[1]), ret.name) = 0

-----------------------------------------------------------------------------
(* Spec: every sequence of AddSection and Delete calls on an IniFile, and  *)
(* of Add calls on the Sections they return, from NewIniFile or from Parse.*)

\* c.AddSection(name)
CallAddSection(name) ==
    LET a == AddSection(cur, name) IN
    /\ ~panicked
    /\ Len(heap) < MaxSections
    /\ heap' = a.c.heap
    /\ sections' = a.c.sections
    /\ orderedSections' = a.c.orderedSections
    /\ ret' = Ret("AddSection", name, <<>>, <<>>, <<a.section>>, FALSE)
    /\ UNCHANGED <<panicked, input, first, pc, threads, mutex>>

\* c.Delete(regex); keys is the order in which Find ranges over the map
CallDelete(regex, keys) ==
    LET d == Delete(cur, regex, keys) IN
    /\ ~panicked
    /\ sections' = d.c.sections
    /\ orderedSections' = d.c.orderedSections
    /\ panicked' = d.panic
    /\ ret' = Ret("Delete", regex, <<>>, <<>>, d.sections, d.err)
    /\ UNCHANGED <<heap, input, first, pc, threads, mutex>>

DB1 == <<"d", "b", "-", "1">>
DB2 == <<"d", "b", "-", "2">>
CACHE1 == <<"c", "a", "c", "h", "e", "-", "1">>
SectionNames == {DB1, DB2, CACHE1}

Regexes == { <<"^", "d", "b", "-">>, <<"c", "a", "c", "h", "e">>, <<"2">>, <<"(">> }

\* [db-1] a=1 [db-1] b=2, one per line
TwoBlocks ==
    <<"[">> \o DB1 \o <<"]", NL, "a", "=", "1", NL, "[">> \o DB1
            \o <<"]", NL, "b", "=", "2", NL>>

Init ==
    /\ \E c \in {NewIniFile, Parse(TwoBlocks)} :
          /\ heap = c.heap
          /\ sections = c.sections
          /\ orderedSections = c.orderedSections
    /\ ret = NoRet
    /\ panicked = FALSE
    /\ input = <<>>
    /\ first = NewIniFile
    /\ pc = "calls"
    /\ threads = NoThreads
    /\ mutex = Unlocked

Next ==
    \/ \E name \in SectionNames : CallAddSection(name)
    \/ \E regex \in Regexes : \E keys \in KeyOrders(sections) : CallDelete(regex, keys)
    \/ \E id \in 1..Len(heap) : id <= MaxHandles /\ CallAdd(id, <<"a">>, <<"1">>)

Spec == Init /\ [][Next]_vars

Range(seq) == {seq[i] : i \in 1..Len(seq)}

\* C1: after any sequence of AddSection and Delete calls, a name is in the
\* name-order sequence if and only if the mapping holds a non-empty sequence
\* of Section instances for it.
C1_OrderIffMapping ==
    ~panicked =>
       \A n \in Range(orderedSections) \cup DOMAIN sections :
          n \in Range(orderedSections) <=> (n \in DOMAIN sections /\ sections[n] # <<>>)

\* the *Sections registered under the names in names
Registered(c, names) == UNION {Range(c.sections[n]) : n \in names \cap DOMAIN c.sections}

\* C2: Delete(r) with a valid pattern returns exactly the Section instances
\* registered under names matching r; afterwards no name matching r remains
\* in the mapping or in the name-order sequence, and Sections("") returns
\* exactly the previously registered Sections whose names do not match r, in
\* their previous order.
C2_DeleteAsStated ==
    [][(ret'.op = "Delete" /\ Compiles(ret'.name) /\ ~panicked')
        => LET r == ret'.name
               keep(id) == ~MatchString(r, heap[id].name).matched
           IN  /\ NoDuplicates(ret'.sections)
               /\ Range(ret'.sections) =
                     Registered(cur, Matching(r, DOMAIN sections))
               /\ \A n \in DOMAIN sections' : ~MatchString(r, n).matched
               /\ \A n \in Range(orderedSections') : ~MatchString(r, n).matched
               /\ Sections(cur', <<>>).sections =
                     SelectSeq(Sections(cur, <<>>).sections, keep)]_vars

\* C4: after any sequence of AddSection and Delete calls, Sections("")
\* returns every registered Section instance exactly once, grouped by name in
\* name-first-appearance order, each name's instances in the order they were
\* added; Sections(n) for a registered non-empty name n returns exactly n's
\* instances in that order.
C4_SectionsAsStated ==
    ~panicked =>
       LET all == Sections(cur, <<>>).sections
           nm(id) == heap[id].name
       IN  /\ NoDuplicates(all)
           /\ Range(all) = Registered(cur, DOMAIN sections)
           /\ \A p, q \in 1..Len(all) :
                 p < q => IF nm(all[p]) = nm(all[q]) THEN all[p] < all[q]
                          ELSE Head(sections[nm(all[p])]) < Head(sections[nm(all[q])])
           /\ \A n \in DOMAIN sections :
                 n # <<>> =>
                    /\ ~Sections(cur, n).err
                    /\ Range(Sections(cur, n).sections) =
                          {id \in Registered(cur, DOMAIN sections) : nm(id) = n}
                    /\ \A p, q \in 1..Len(Sections(cur, n).sections) :
                          p < q => Sections(cur, n).sections[p]
                                      < Sections(cur, n).sections[q]

\* the instances of every registered name: in creation order, all those
\* created since the first of them, which is the one Section(name) returns
C5_Instances ==
    \A n \in DOMAIN sections :
       LET l == Sections(cur, n).sections IN
       n # <<>> =>
          /\ l # <<>>
          /\ \A i \in 1..Len(l) : heap[l[i]].name = n
          /\ \A i, j \in 1..Len(l) : i < j => l[i] < l[j]
          /\ \A id \in 1..Len(heap) :
                (heap[id].name = n /\ id >= l[1]) => id \in Range(l)
          /\ Section(cur, n) = [section |-> l[1], err |-> FALSE]

\* AddSection(n) lengthens Sections(n) by the one new, empty instance; it
\* and Add on one instance change no other instance
C5_Step ==
    /\ ret'.op = "AddSection" =>
          /\ Sections(cur', ret'.name).sections =
                Sections(cur, ret'.name).sections \o ret'.sections
          /\ heap'[ret'.sections[1]] = NewSection(ret'.name)
          /\ \A id \in 1..Len(heap) : heap'[id] = heap[id]
    /\ ret'.op = "Add" =>
          /\ ValueOf(heap'[ret'.sections[1]], ret'.name) = ret'.value
          /\ \A id \in 1..Len(heap) : id # ret'.sections[1] => heap'[id] = heap[id]

\* C5: k calls of AddSection with the same name (or k header lines with that
\* name in a parsed input) yield Sections(name) of length k in creation
\* order, each instance holding only the options added to it, and
\* Section(name) returns the first-created of them.
C5_RepeatedNames == []C5_Instances /\ [][C5_Step]_vars

\* two instances under one name, an option added to the second one only
C5_Witness ==
    /\ ret.op = "Add"
    /\ \E n \in DOMAIN sections :
          /\ Len(sections[n]) = 2
          /\ ret.sections = <<sections[n][2]>>
          /\ heap[sections[n][1]].options = EmptyMap
          /\ heap[sections[n][2]].options # EmptyMap

BadRegex == <<"(">>

\* C11: for every Configuration state (including one with no sections), Find
\* and Delete called with an invalid regular expression return a failure and
\* no Sections, and Delete then leaves the mapping and the name-order
\* sequence unchanged.
C11_InvalidPatternAsStated ==
    ~panicked =>
       \A keys \in KeyOrders(sections) :
          /\ Find(cur, BadRegex, keys).err
          /\ Find(cur, BadRegex, keys).sections = <<>>
          /\ Delete(cur, BadRegex, keys).err
          /\ Delete(cur, BadRegex, keys).sections = <<>>
          /\ Delete(cur, BadRegex, keys).c = cur

\* the instances registered under name n, as Sections("") lists them
InstancesOf(n) == {id \in Range(Sections(cur, <<>>).sections) : heap[id].name = n}

Min(S) == CHOOSE x \in S : \A y \in S : x <= y

\* C12: Section(n), Sections(n) for non-empty n and StringValue(n, o) fail
\* with NotFound exactly when no Section instance is currently registered
\* under n; when one is registered, StringValue(n, o) returns the value of o
\* in the first instance of n (the empty string if o is absent), without
\* error.
C12_NotFound ==
    \A n \in SectionNames \cup {global} : \A o \in OptionKeys :
       /\ Section(cur, n).err <=> InstancesOf(n) = {}
       /\ Sections(cur, n).err <=> InstancesOf(n) = {}
       /\ StringValue(cur, n, o).err <=> InstancesOf(n) = {}
       /\ InstancesOf(n) # {} =>
             /\ Section(cur, n).section = Min(InstancesOf(n))
             /\ StringValue(cur, n, o).value =
                   (IF o \in DOMAIN heap[Min(InstancesOf(n))].options
                    THEN heap[Min(InstancesOf(n))].options[o] ELSE <<>>)

\* a deleted name is not found while a name with two instances, only the
\* first of which holds the option a, still is
C12_Witness ==
    /\ ret.op = "Delete"
    /\ ret.sections # <<>>
    /\ \E n \in DOMAIN sections :
          /\ Len(sections[n]) = 2
          /\ <<"a">> \in DOMAIN heap[sections[n][1]].options
          /\ <<"a">> \notin DOMAIN heap[sections[n][2]].options

\* C18: for every reachable name-order sequence and every valid pattern,
\* Delete completes normally: the loop that removes matching names never
\* indexes or slices the sequence outside its bounds.
C18_DeleteCompletesAsStated == ~(panicked /\ ret.op = "Delete" /\ Compiles(ret.name))

-----------------------------------------------------------------------------
(* SpecParse: a file is parsed, the IniFile is serialized with String()    *)
(* and the text is parsed again.                                           *)

InputLines ==
    { <<"[", "x", "]">>, <<"[", "y", "]">>, <<"a", "=", "1">>,
      <<"b", " ", ":", " ", "2">>, <<"#", "c">>, <<>>, <<"a">>,
      <<";", " ", "k", "=", "v">> }

\* the lines of a well-formed file: headers and key/value lines
WellFormedLines ==
    { <<"[", "x", "]">>, <<"[", "y", "]">>, <<"a", "=", "1">>,
      <<"b", " ", ":", " ", "2">> }

\* the file whose lines are lines, each ended by a newline
RECURSIVE FileOf(_)
FileOf(lines) ==
    IF lines = <<>> THEN <<>> ELSE Head(lines) \o <<NL>> \o FileOf(Tail(lines))

Files == {FileOf(ls) : ls \in UNION {[1..n -> InputLines] : n \in 0..MaxLines}}

InitParse ==
    /\ input \in Files
    /\ heap = <<>>
    /\ sections = EmptyMap
    /\ orderedSections = <<>>
    /\ ret = NoRet
    /\ panicked = FALSE
    /\ first = NewIniFile
    /\ pc = "start"
    /\ threads = NoThreads
    /\ mutex = Unlocked

\* c, err := Parse(filePath) of the file input
CallParse ==
    /\ pc = "start"
    /\ heap' = Parse(input).heap
    /\ sections' = Parse(input).sections
    /\ orderedSections' = Parse(input).orderedSections
    /\ first' = Parse(input)
    /\ ret' = Ret("Parse", <<>>, <<>>, <<>>, <<>>, FALSE)
    /\ pc' = "parsed"
    /\ UNCHANGED <<panicked, input, threads, mutex>>

\* c.String(); ret.old is the text returned
CallString ==
    /\ pc = "parsed"
    /\ ret' = Ret("String", <<>>, <<>>, String(cur), <<>>, FALSE)
    /\ pc' = "printed"
    /\ UNCHANGED <<heap, sections, orderedSections, panicked, input, first, threads, mutex>>

\* Parse of the file that holds the text String() returned
CallParseAgain ==
    /\ pc = "printed"
    /\ heap' = Parse(ret.old).heap
    /\ sections' = Parse(ret.old).sections
    /\ orderedSections' = Parse(ret.old).orderedSections
    /\ ret' = Ret("Parse", <<>>, <<>>, <<>>, <<>>, FALSE)
    /\ pc' = "reparsed"
    /\ UNCHANGED <<panicked, input, first, threads, mutex>>

NextParse == CallParse \/ CallString \/ CallParseAgain

SpecParse == InitParse /\ [][NextParse]_vars

WellFormed(text) == \A l \in Range(ScanLines(text)) : l \in WellFormedLines

\* the same sections in the same order, with the same option names and values
SameStructure(c1, c2) ==
    LET s1 == Sections(c1, <<>>).sections
        s2 == Sections(c2, <<>>).sections
    IN  /\ Len(s1) = Len(s2)
        /\ \A i \in 1..Len(s1) :
              /\ c1.heap[s1[i]].name = c2.heap[s2[i]].name
              /\ Options(c1.heap[s1[i]]) = Options(c2.heap[s2[i]])

\* C3: for every well-formed input text, parsing it into C, serializing C
\* with String() and parsing that text again yields the same sections in the
\* same order and, in each section, the same option names and values as C.
C3_RoundTripAsStated ==
    (pc = "reparsed" /\ WellFormed(input)) => SameStructure(first, cur)

\* the first line of the file that stores the option name
FirstLine(text, name) ==
    CHOOSE i \in 1..Len(ScanLines(text)) :
       /\ parseOption(ScanLines(text)[i]).opt = name
       /\ \A j \in 1..(i - 1) : parseOption(ScanLines(text)[j]).opt # name

\* C9: for an IniFile returned by Parse, each Section's OptionNames() lists
\* exactly the names of the options the parser stored in that Section, in
\* the order their lines appeared in the input.
C9_OptionNamesAsStated ==
    pc = "parsed" =>
       \A id \in 1..Len(heap) :
          /\ NoDuplicates(OptionNames(heap[id]))
          /\ Range(OptionNames(heap[id])) = DOMAIN Options(heap[id])
          /\ \A i, j \in 1..Len(OptionNames(heap[id])) :
                i < j => FirstLine(input, OptionNames(heap[id])[i])
                            < FirstLine(input, OptionNames(heap[id])[j])

-----------------------------------------------------------------------------
(* Calls of caller threads, one step per lock operation and per access to  *)
(* the shared fields that no lock orders.                                  *)

\* thread t moves to pc with the locals changed as in the record upd
Goto(t, upd) ==
    threads' = [threads EXCEPT ![t] = [f \in DOMAIN @ |->
                   IF f \in DOMAIN upd THEN upd[f] ELSE @[f]]]

\* thread t returns res from its call
Return(t, res) ==
    threads' = [threads EXCEPT ![t] =
                   IdleThread(res, threads[t].log, threads[t].written, threads[t].file)]

\* the other threads whose local lst is the list the map holds under name
\* lose it when the map entry is replaced or deleted: their list is no
\* longer reachable from the IniFile
Detach(ths, t, names) ==
    [u \in DOMAIN ths |->
        IF u # t /\ ths[u].lst = "shared" /\ ths[u].name \in names
        THEN [ths[u] EXCEPT !.lst = "orphan"] ELSE ths[u]]

\* AddSection lines 217-219: allocate the Section, look the list up (no lock
\* is taken)
AddSectionLookup(t, name) ==
    /\ ~panicked
    /\ threads[t].pc = "idle"
    /\ Len(heap) < MaxShared
    /\ heap' = Append(heap, NewSection(name))
    /\ Goto(t, [pc |-> IF name \in DOMAIN sections THEN "add_push" ELSE "add_new",
                op |-> "AddSection", name |-> name, id |-> Len(heap) + 1,
                res |-> Result("none", <<>>, FALSE),
                log |-> <<>>, written |-> <<>>, file |-> <<>>,
                lst |-> IF name \in DOMAIN sections THEN "shared" ELSE "nil"])
    /\ UNCHANGED <<sections, orderedSections, ret, panicked, input, first, pc, mutex>>

\* AddSection lines 220-221: lst = list.New(); c.sections[name] = lst.  Two
\* threads writing the map at once are a data race the run time may detect
\* (fatal error: concurrent map writes).
AddSectionNewList(t) ==
    /\ ~panicked
    /\ threads[t].pc = "add_new"
    /\ \/ /\ \E u \in Threads : u # t /\ threads[u].pc = "add_new"
          /\ panicked' = TRUE
          /\ UNCHANGED <<sections, threads>>
       \/ /\ sections' = MapPut(sections, threads[t].name, <<>>)
          /\ threads' = [Detach(threads, t, {threads[t].name}) EXCEPT
                            ![t].pc = "add_order", ![t].lst = "shared"]
          /\ UNCHANGED panicked
    /\ UNCHANGED <<heap, orderedSections, ret, input, first, pc, mutex>>

\* AddSection line 222, the read of c.orderedSections by append
AddSectionOrderRead(t) ==
    /\ ~panicked
    /\ threads[t].pc = "add_order"
    /\ Goto(t, [pc |-> "add_order_w", ord |-> orderedSections])
    /\ UNCHANGED <<heap, sections, orderedSections, ret, panicked, input, first, pc, mutex>>

\* AddSection line 222, the assignment of the appended slice
AddSectionOrderWrite(t) ==
    /\ ~panicked
    /\ threads[t].pc = "add_order_w"
    /\ orderedSections' = Append(threads[t].ord, threads[t].name)
    /\ Goto(t, [pc |-> "add_push", ord |-> <<>>])
    /\ UNCHANGED <<heap, sections, ret, panicked, input, first, pc, mutex>>

\* AddSection lines 225-226: lst.PushBack(section); return section
AddSectionPushBack(t) ==
    /\ ~panicked
    /\ threads[t].pc = "add_push"
    /\ sections' = IF threads[t].lst = "shared"
                   THEN [sections EXCEPT ![threads[t].name] = Append(@, threads[t].id)]
                   ELSE sections
    /\ Return(t, Result("AddSection", <<threads[t].id>>, FALSE))
    /\ UNCHANGED <<heap, orderedSections, ret, panicked, input, first, pc, mutex>>

AddSectionStep(t) ==
    \/ \E name \in {DB1, DB2} : AddSectionLookup(t, name)
    \/ AddSectionNewList(t)
    \/ AddSectionOrderRead(t)
    \/ AddSectionOrderWrite(t)
    \/ AddSectionPushBack(t)

InitConc ==
    /\ \E c \in {NewIniFile, AddSection(NewIniFile, DB1).c} :
          /\ heap = c.heap
          /\ sections = c.sections
          /\ orderedSections = c.orderedSections
    /\ ret = NoRet
    /\ panicked = FALSE
    /\ input = <<>>
    /\ first = NewIniFile
    /\ pc = "threads"
    /\ threads = NoThreads
    /\ mutex = Unlocked

(* SpecAdd: threads that call AddSection concurrently.                     *)

NextAdd == \E t \in Threads : AddSectionStep(t)

SpecAdd == InitConc /\ [][NextAdd]_vars

\* C13: AddSection is atomic with respect to every other Configuration
\* operation: for any interleaving of two concurrent AddSection calls, after
\* both return both new Section instances are registered under their names
\* and each name appears exactly once in the name-order sequence.
C13_AddSectionAtomicAsStated ==
    (~panicked /\ \A t \in Threads : threads[t].pc = "idle") =>
       /\ \A id \in 1..Len(heap) :
             /\ heap[id].name \in DOMAIN sections
             /\ Count(sections[heap[id].name], id) = 1
       /\ \A id \in 1..Len(heap) : Count(orderedSections, heap[id].name) = 1

-----------------------------------------------------------------------------
(* sync.RWMutex: Lock first announces the writer (w), which makes later    *)
(* RLock calls wait, then waits for the read locks held to be released.    *)

\* c.mutex.RLock() can return
CanRLock == mutex.w = 0

\* c.mutex.Lock() can announce its writer
CanAnnounce == mutex.w = 0

\* the announced writer can proceed
CanProceed == mutex.readers = 0

RLocked == [mutex EXCEPT !.readers = @ + 1]

RUnlocked == [mutex EXCEPT !.readers = @ - 1]

\* a call begins: thread t stands before the first lock operation of op
Begin(t, op, name, pc0) ==
    /\ ~panicked
    /\ threads[t].pc = "idle"
    /\ Goto(t, [pc |-> pc0, op |-> op, name |-> name,
                res |-> Result("none", <<>>, FALSE),
                log |-> <<>>, written |-> <<>>, file |-> <<>>])
    /\ UNCHANGED <<heap, sections, orderedSections, ret, panicked, input, first, pc, mutex>>

\* c.mutex.RLock() at position from
RLockStep(t, from, to) ==
    /\ ~panicked
    /\ threads[t].pc = from
    /\ CanRLock
    /\ mutex' = RLocked
    /\ Goto(t, [pc |-> to])
    /\ UNCHANGED <<heap, sections, orderedSections, ret, panicked, input, first, pc>>

\* c.mutex.Lock() at position from, the announcement of the writer
LockAnnounce(t, from, to) ==
    /\ ~panicked
    /\ threads[t].pc = from
    /\ CanAnnounce
    /\ mutex' = [mutex EXCEPT !.w = t]
    /\ Goto(t, [pc |-> to])
    /\ UNCHANGED <<heap, sections, orderedSections, ret, panicked, input, first, pc>>

\* c.mutex.Lock() returns once no read lock is held
LockProceed(t, from, to) ==
    /\ ~panicked
    /\ threads[t].pc = from
    /\ CanProceed
    /\ Goto(t, [pc |-> to])
    /\ UNCHANGED <<heap, sections, orderedSections, ret, panicked, input, first, pc, mutex>>

(* Sections, Section and Find: RLock, the body, RUnlock.                   *)

\* the body of the reader op under the read lock, and its return
ReaderBody(t) ==
    /\ ~panicked
    /\ threads[t].pc = "rd_body"
    /\ mutex' = RUnlocked
    /\ \/ /\ threads[t].op = "Sections"
          /\ Return(t, Result("Sections", Sections(cur, threads[t].name).sections,
                               Sections(cur, threads[t].name).err))
       \/ /\ threads[t].op = "Section"
          /\ Return(t, Result("Section",
                               IF Section(cur, threads[t].name).err THEN <<>>
                               ELSE <<Section(cur, threads[t].name).section>>,
                               Section(cur, threads[t].name).err))
       \/ /\ threads[t].op = "Find"
          /\ \E keys \in KeyOrders(sections) :
                Return(t, Result("Find", Find(cur, threads[t].name, keys).sections,
                                  Find(cur, threads[t].name, keys).err))
    /\ UNCHANGED <<heap, sections, orderedSections, ret, panicked, input, first, pc>>

(* String and PrintSection: RLock, then Sections (a second RLock) for each *)
(* name, then RUnlock.                                                     *)

\* the outer read lock is held: String ranges over c.orderedSections,
\* PrintSection asks for its one name
OuterLocked(t) ==
    /\ ~panicked
    /\ threads[t].pc = "str_locked"
    /\ Goto(t, [pc |-> "str_loop",
                names |-> IF threads[t].op = "String" THEN orderedSections
                          ELSE <<threads[t].name>>])
    /\ UNCHANGED <<heap, sections, orderedSections, ret, panicked, input, first, pc, mutex>>

\* the call c.Sections(name) of the loop body, up to its RLock; after the
\* last name the deferred RUnlock and the return
OuterLoop(t) ==
    /\ ~panicked
    /\ threads[t].pc = "str_loop"
    /\ IF threads[t].names = <<>>
       THEN /\ mutex' = RUnlocked
            /\ Return(t, Result(threads[t].op, threads[t].found, FALSE))
       ELSE /\ Goto(t, [pc |-> "str_inner"])
            /\ UNCHANGED mutex
    /\ UNCHANGED <<heap, sections, orderedSections, ret, panicked, input, first, pc>>

\* the body of the inner c.Sections(name) and its RUnlock; found collects
\* the Sections rendered
InnerBody(t) ==
    /\ ~panicked
    /\ threads[t].pc = "str_inner_body"
    /\ mutex' = RUnlocked
    /\ Goto(t, [pc |-> "str_loop",
                found |-> threads[t].found
                             \o Sections(cur, Head(threads[t].names)).sections,
                names |-> Tail(threads[t].names)])
    /\ UNCHANGED <<heap, sections, orderedSections, ret, panicked, input, first, pc>>

(* Delete: Find under the read lock, then the write lock for the removal.  *)

\* the body of the Find that Delete calls, and its RUnlock
DeleteFind(t) ==
    /\ ~panicked
    /\ threads[t].pc = "del_find"
    /\ mutex' = RUnlocked
    /\ \E keys \in KeyOrders(sections) :
          Goto(t, [pc |-> "del_lock",
                   found |-> <<Find(cur, threads[t].name, keys)>>])
    /\ UNCHANGED <<heap, sections, orderedSections, ret, panicked, input, first, pc>>

\* lines 290-306 under the write lock, the deferred Unlock and the return; a
\* panic unwinds through the deferred Unlock
DeleteBody(t) ==
    LET d == DeleteFound(cur, threads[t].name, threads[t].found[1]) IN
    /\ ~panicked
    /\ threads[t].pc = "del_body"
    /\ sections' = d.c.sections
    /\ orderedSections' = d.c.orderedSections
    /\ panicked' = d.panic
    /\ mutex' = [mutex EXCEPT !.w = 0]
    /\ threads' = [Detach(threads, t, (DOMAIN sections) \ DOMAIN d.c.sections)
                      EXCEPT ![t] = IdleThread(Result("Delete", d.sections, d.err),
                                               threads[t].log, threads[t].written,
                                               threads[t].file)]
    /\ UNCHANGED <<heap, ret, input, first, pc>>

ReaderStep(t) ==
    \/ \E name \in {<<>>, DB2} : Begin(t, "Sections", name, "rd_rlock")
    \/ Begin(t, "Section", DB1, "rd_rlock")
    \/ Begin(t, "Find", <<"^", "d", "b", "-">>, "rd_rlock")
    \/ RLockStep(t, "rd_rlock", "rd_body")
    \/ ReaderBody(t)

StringStep(t) ==
    \/ Begin(t, "String", <<>>, "str_rlock")
    \/ Begin(t, "PrintSection", DB1, "str_rlock")
    \/ RLockStep(t, "str_rlock", "str_locked")
    \/ OuterLocked(t)
    \/ OuterLoop(t)
    \/ RLockStep(t, "str_inner", "str_inner_body")
    \/ InnerBody(t)

DeleteStep(t) ==
    \/ \E regex \in {<<"^", "d", "b", "-">>, <<"2">>} : Begin(t, "Delete", regex, "del_rlock")
    \/ RLockStep(t, "del_rlock", "del_find")
    \/ DeleteFind(t)
    \/ LockAnnounce(t, "del_lock", "del_wait")
    \/ LockProceed(t, "del_wait", "del_body")
    \/ DeleteBody(t)

\* SpecDelete: threads that call AddSection and Delete concurrently
NextDelete == \E t \in Threads : AddSectionStep(t) \/ DeleteStep(t)

SpecDelete == InitConc /\ [][NextDelete]_vars

\* C20: under any interleaving of Delete(r) with concurrent AddSection calls,
\* the Sections that Delete(r) returns are exactly the Section instances it
\* removed from the Configuration: no instance is removed from the mapping
\* without being returned, and no matching name is dropped from the
\* name-order sequence while instances of it stay in the mapping.
C20_DeleteReturnsRemovedAsStated ==
    [][\A t \in Threads :
          (threads[t].pc = "del_body" /\ threads'[t].pc = "idle"
              /\ ~panicked' /\ ~threads'[t].res.err)
          => /\ Range(threads'[t].res.sections) =
                   Registered(cur, DOMAIN sections) \ Registered(cur', DOMAIN sections')
             /\ \A n \in Range(orderedSections) \ Range(orderedSections') :
                   ~(n \in DOMAIN sections' /\ sections'[n] # <<>>)]_vars

-----------------------------------------------------------------------------
(* Save.  log lists the steps on the sink of the thread's last Save,       *)
(* written is the text handed to the bufio.Writer and file the text that   *)
(* reached the file.  The texts written stay below the 4096 bytes of the   *)
(* Writer's buffer, so nothing reaches the file before Flush.              *)

\* Save is called
BeginSave(t) ==
    /\ ~panicked
    /\ threads[t].pc = "idle"
    /\ Goto(t, [pc |-> "save_lock", op |-> "Save",
                res |-> Result("none", <<>>, FALSE),
                log |-> <<>>, written |-> <<>>, file |-> <<>>])
    /\ UNCHANGED <<heap, sections, orderedSections, ret, panicked, input, first, pc, mutex>>

\* lines 233-238: os.Rename to .bak; a failure other than "does not exist"
\* returns with the write lock still held
SaveRename(t) ==
    /\ ~panicked
    /\ threads[t].pc = "save_rename"
    /\ \E outcome \in {"renamed", "rename_notexist", "rename_failed"} :
          IF outcome = "rename_failed"
          THEN threads' = [threads EXCEPT ![t] =
                              IdleThread(Result("Save", <<>>, TRUE),
                                         Append(threads[t].log, outcome), <<>>, <<>>)]
          ELSE Goto(t, [pc |-> "save_create", log |-> Append(threads[t].log, outcome)])
    /\ UNCHANGED <<heap, sections, orderedSections, ret, panicked, input, first, pc, mutex>>

\* lines 240-243: os.Create; a failure returns with the write lock still held
SaveCreate(t) ==
    /\ ~panicked
    /\ threads[t].pc = "save_create"
    /\ \E outcome \in {"created", "create_failed"} :
          IF outcome = "create_failed"
          THEN threads' = [threads EXCEPT ![t] =
                              IdleThread(Result("Save", <<>>, TRUE),
                                         Append(threads[t].log, outcome), <<>>, <<>>)]
          ELSE Goto(t, [pc |-> "save_unlock", log |-> Append(threads[t].log, outcome)])
    /\ UNCHANGED <<heap, sections, orderedSections, ret, panicked, input, first, pc, mutex>>

\* line 251: c.mutex.Unlock()
SaveUnlock(t) ==
    /\ ~panicked
    /\ threads[t].pc = "save_unlock"
    /\ mutex' = [mutex EXCEPT !.w = 0]
    /\ Goto(t, [pc |-> "save_rlock"])
    /\ UNCHANGED <<heap, sections, orderedSections, ret, panicked, input, first, pc>>

\* line 253: the body of c.Sections and its RUnlock
SaveSnapshot(t) ==
    /\ ~panicked
    /\ threads[t].pc = "save_snap"
    /\ mutex' = RUnlocked
    /\ Goto(t, [pc |-> "save_lock2", found |-> Sections(cur, <<>>).sections])
    /\ UNCHANGED <<heap, sections, orderedSections, ret, panicked, input, first, pc>>

\* lines 261-263: w.WriteString(v.String()) for every Section of the snapshot
SaveWrite(t) ==
    /\ ~panicked
    /\ threads[t].pc = "save_write"
    /\ Goto(t, [pc |-> "save_ret",
                written |-> Join([i \in 1..Len(threads[t].found) |->
                                     SectionString(heap[threads[t].found[i]])]),
                log |-> threads[t].log
                           \o [i \in 1..Len(threads[t].found) |-> "write"]])
    /\ UNCHANGED <<heap, sections, orderedSections, ret, panicked, input, first, pc, mutex>>

SaveDeferredMutCloseFirst == <<"unlock", "close", "flush">>

\* the deferred calls of lines 245, 249 and 259, in the order they run: the
\* last deferred first
SaveDeferred == <<"unlock", "flush", "close">>

\* the deferred calls calls run on st: the write lock holder w, the log, the
\* text the file holds and whether the file is closed
RECURSIVE RunDeferred(_, _, _)
RunDeferred(calls, st, written) ==
    IF calls = <<>> THEN st
    ELSE RunDeferred(Tail(calls),
            CASE Head(calls) = "unlock" -> [st EXCEPT !.w = 0]
              [] Head(calls) = "flush" ->
                    [st EXCEPT !.log = Append(@, "flush"),
                               !.file = IF st.closed THEN @ ELSE written]
              [] Head(calls) = "close" ->
                    [st EXCEPT !.log = Append(@, "close"), !.closed = TRUE],
            written)

\* line 265: return err, which runs the deferred calls
SaveReturn(t) ==
    LET st == RunDeferred(SaveDeferred,
                          [w |-> mutex.w, log |-> threads[t].log,
                           file |-> threads[t].file, closed |-> FALSE],
                          threads[t].written)
    IN  /\ ~panicked
        /\ threads[t].pc = "save_ret"
        /\ mutex' = [mutex EXCEPT !.w = st.w]
        /\ threads' = [threads EXCEPT ![t] =
                          IdleThread(Result("Save", <<>>, FALSE), st.log,
                                     threads[t].written, st.file)]
        /\ UNCHANGED <<heap, sections, orderedSections, ret, panicked, input, first, pc>>

SaveStep(t) ==
    \/ BeginSave(t)
    \/ LockAnnounce(t, "save_lock", "save_wait")
    \/ LockProceed(t, "save_wait", "save_rename")
    \/ SaveRename(t)
    \/ SaveCreate(t)
    \/ SaveUnlock(t)
    \/ RLockStep(t, "save_rlock", "save_snap")
    \/ SaveSnapshot(t)
    \/ LockAnnounce(t, "save_lock2", "save_wait2")
    \/ LockProceed(t, "save_wait2", "save_write")
    \/ SaveWrite(t)
    \/ SaveReturn(t)

(* SpecLock: threads that call String, PrintSection, Sections, Find,       *)
(* Section, Delete and Save concurrently.                                  *)

NextLock == \E t \in Threads : ReaderStep(t) \/ StringStep(t) \/ DeleteStep(t) \/ SaveStep(t)

SpecLock == InitConc /\ [][NextLock]_vars

\* thread t is in a call and waits for the IniFile lock
Blocked(t) ==
    \/ /\ threads[t].pc \in {"rd_rlock", "str_rlock", "str_inner", "del_rlock", "save_rlock"}
       /\ ~CanRLock
    \/ /\ threads[t].pc \in {"del_lock", "save_lock", "save_lock2"}
       /\ ~CanAnnounce
    \/ /\ threads[t].pc \in {"del_wait", "save_wait", "save_wait2"}
       /\ ~CanProceed

\* the positions at which a thread has announced or holds the write lock
WriterPositions ==
    {"del_wait", "del_body", "save_wait", "save_rename", "save_create",
     "save_unlock", "save_wait2", "save_write", "save_ret"}

\* the write lock is held by a call that has returned
LockLeft == mutex.w # 0 /\ threads[mutex.w].pc \notin WriterPositions

\* C14: deadlock freedom: when threads concurrently invoke String,
\* PrintSection, Sections, Find, Section, Delete and Save, every invocation
\* eventually returns; no interleaving leaves a caller blocked forever on the
\* Configuration lock.  A state in which every thread that is in a call
\* waits for the lock never changes again, so the claim requires that there
\* is none (states where a returned Save left the lock held, the case of
\* C19, are left aside).
C14_NoCallerBlockedForeverAsStated ==
    (~panicked /\ ~LockLeft) =>
       ~ /\ \E t \in Threads : threads[t].pc # "idle"
         /\ \A t \in Threads : threads[t].pc # "idle" => Blocked(t)

\* the place of a sink step in the order rename, create, write, flush, close
Stage(e) ==
    CASE e \in {"renamed", "rename_notexist", "rename_failed"} -> 1
      [] e \in {"created", "create_failed"} -> 2
      [] e = "write" -> 3
      [] e = "flush" -> 4
      [] e = "close" -> 5

\* thread t has returned from Save
Saved(t) == threads[t].pc = "idle" /\ threads[t].res.op = "Save"

\* C15: in every execution of Save the sink steps occur in the order
\* rename-to-.bak, create, write of the serialized text, flush: a rename
\* failure other than "does not exist" makes Save return that failure with no
\* create and no write, a "does not exist" rename failure lets the save
\* proceed, and every written byte is flushed to the sink before Save returns
\* and before the sink is closed.
C15_SaveOrder ==
    \A t \in Threads :
       LET log == threads[t].log IN
       /\ \A i, j \in 1..Len(log) :
             i < j => \/ Stage(log[i]) < Stage(log[j])
                      \/ (log[i] = "write" /\ log[j] = "write")
       /\ log # <<>> => Stage(log[1]) = 1
       /\ Len(log) > 1 => Stage(log[2]) = 2
       /\ "rename_failed" \in Range(log) =>
             /\ log = <<"rename_failed">>
             /\ Saved(t) /\ threads[t].res.err
             /\ threads[t].written = <<>> /\ threads[t].file = <<>>
       /\ "create_failed" \in Range(log) =>
             /\ Len(log) = 2
             /\ Saved(t) /\ threads[t].res.err
             /\ threads[t].written = <<>> /\ threads[t].file = <<>>
       /\ (Saved(t) /\ log[1] = "rename_notexist") => Len(log) >= 2
       /\ ~Saved(t) => threads[t].file = <<>>
       /\ (Saved(t) /\ ~threads[t].res.err) =>
             /\ threads[t].file = threads[t].written
             /\ Count(log, "write") = Len(ScanLines(threads[t].written))
             /\ SubSeq(log, Len(log) - 1, Len(log)) = <<"flush", "close">>

\* a Save whose rename found no file has written a section and returned
C15_Witness ==
    \E t \in Threads :
       /\ Saved(t)
       /\ ~threads[t].res.err
       /\ threads[t].log = <<"rename_notexist", "created", "write", "flush", "close">>
       /\ threads[t].file = <<"[">> \o DB1 \o <<"]", NL>>

\* C19: whenever Save returns, successfully or with a rename or create
\* failure, the calling thread no longer holds the Configuration lock.
C19_SaveReleasesLockAsStated == \A t \in Threads : Saved(t) => mutex.w # t

====
